---- MODULE Spec2Model ----
(***************************************************************************)
(* State machine of src/index.js: the To-Do list component `App`.          *)
(*                                                                         *)
(* The component keeps two pieces of React state, `todos` and              *)
(* `inputValue`, loads `todos` from localStorage['todos'] in the lazy      *)
(* useState initializer, and writes it back in a useEffect that depends    *)
(* on `todos`.  Three handlers (handleAddTodo, handleToggleCompleted,      *)
(* handleDeleteTodo) and the input's onChange queue state updates; React   *)
(* then re-renders and runs the effect.                                    *)
(*                                                                         *)
(* Texts are sequences of one-character strings; the stored value is a     *)
(* sequence of JSON tokens, produced by JSONStringify and read back by     *)
(* JSONParse (a recursive-descent parser over the tokens).                 *)
(***************************************************************************)
EXTENDS Integers, Sequences, FiniteSets, TLC

(* ---------------------------------------------------------------------- *)
(* Bounds of the model                                                     *)
(* ---------------------------------------------------------------------- *)
\* largest number of items the collection is allowed to grow to
MaxItems == 2
\* number of clock ticks the environment may take after the start
MaxTicks == 1
\* largest number of setTodos calls queued before one re-render
MaxBatch == 2

\* reading of Date.now() when the session starts
StartClock == 2

\* the ids of items saved by an earlier session: earlier readings of the clock
SavedIds == {1}

(* ---------------------------------------------------------------------- *)
(* Texts                                                                   *)
(* ---------------------------------------------------------------------- *)
\* a text is a sequence of characters; " " is the white-space character
IsSpace(c) == c = " "

RECURSIVE TrimStart(_)
\* String.prototype.trim, leading part: drop white space at the front
TrimStart(s) ==
  IF s = <<>> THEN <<>>
  ELSE IF IsSpace(Head(s)) THEN TrimStart(Tail(s)) ELSE s

RECURSIVE TrimEnd(_)
\* String.prototype.trim, trailing part: drop white space at the end
TrimEnd(s) ==
  IF s = <<>> THEN <<>>
  ELSE IF IsSpace(s[Len(s)]) THEN TrimEnd(SubSeq(s, 1, Len(s) - 1)) ELSE s

\* inputValue.trim()
Trim(s) == TrimEnd(TrimStart(s))

\* variant of Truthy: every string passes the test, the empty one too
Truthy_Always(s) == TRUE

\* JavaScript truthiness of a string: the empty string is falsy
Truthy(s) == s # <<>>

\* the values typed into the input field: empty, white space only, a plain
\* text, and a text with white space in front and at the end
Inputs == {<<>>, <<" ">>, <<" ", "a", " ">>, <<"b">>}

(* ---------------------------------------------------------------------- *)
(* JSON text: tokens, JSON.stringify, JSON.parse                           *)
(* ---------------------------------------------------------------------- *)
\* a token of a JSON text: punctuation, literal, number or string
Tok(k) == [k |-> k, n |-> 0, s |-> <<>>]
NumTok(n) == [k |-> "num", n |-> n, s |-> <<>>]
StrTok(s) == [k |-> "str", n |-> 0, s |-> s]

\* the property names of an item, as the characters of a JSON string
KeyId == <<"i", "d">>
KeyText == <<"t", "e", "x", "t">>
KeyCompleted == <<"c", "o", "m", "p", "l", "e", "t", "e", "d">>

\* variant of StringifyItem: the completed flag is always written as false
StringifyItem_NoFlag(todo) ==
  << Tok("{"),
     StrTok(KeyId), Tok(":"), NumTok(todo.id), Tok(","),
     StrTok(KeyText), Tok(":"), StrTok(todo.text), Tok(","),
     StrTok(KeyCompleted), Tok(":"), Tok("false"),
     Tok("}") >>

\* JSON.stringify of one item: properties in creation order id, text, completed
StringifyItem(todo) ==
  << Tok("{"),
     StrTok(KeyId), Tok(":"), NumTok(todo.id), Tok(","),
     StrTok(KeyText), Tok(":"), StrTok(todo.text), Tok(","),
     StrTok(KeyCompleted), Tok(":"),
     IF todo.completed THEN Tok("true") ELSE Tok("false"),
     Tok("}") >>

RECURSIVE StringifyItems(_)
\* the elements of the array, separated by commas
StringifyItems(list) ==
  IF list = <<>> THEN <<>>
  ELSE IF Len(list) = 1 THEN StringifyItem(list[1])
  ELSE StringifyItem(list[1]) \o <<Tok(",")>> \o StringifyItems(Tail(list))

\* JSON.stringify(todos) for an array of items
JSONStringify(list) == <<Tok("[")>> \o StringifyItems(list) \o <<Tok("]")>>

\* a decoded JSON value
JVal(t, n, s, b, elems, members) ==
  [t |-> t, n |-> n, s |-> s, b |-> b, elems |-> elems, members |-> members]
JNull == JVal("null", 0, <<>>, FALSE, <<>>, <<>>)
JNum(n) == JVal("number", n, <<>>, FALSE, <<>>, <<>>)
JStr(s) == JVal("string", 0, s, FALSE, <<>>, <<>>)
JBool(b) == JVal("boolean", 0, <<>>, b, <<>>, <<>>)
JArr(elems) == JVal("array", 0, <<>>, FALSE, elems, <<>>)
JObj(members) == JVal("object", 0, <<>>, FALSE, <<>>, members)

\* result of a parsing step: ok, the position after the value, the value
POk(next, val) == [ok |-> TRUE, next |-> next, val |-> val]
PFail == [ok |-> FALSE, next |-> 0, val |-> JNull]

RECURSIVE ParseValue(_, _)
RECURSIVE ParseElements(_, _, _)
RECURSIVE ParseMembers(_, _, _)

\* one JSON value starting at token i
ParseValue(toks, i) ==
  IF i > Len(toks) THEN PFail
  ELSE LET tk == toks[i] IN
    CASE tk.k = "null" -> POk(i + 1, JNull)
      [] tk.k = "true" -> POk(i + 1, JBool(TRUE))
      [] tk.k = "false" -> POk(i + 1, JBool(FALSE))
      [] tk.k = "num" -> POk(i + 1, JNum(tk.n))
      [] tk.k = "str" -> POk(i + 1, JStr(tk.s))
      [] tk.k = "[" ->
           IF i + 1 <= Len(toks) /\ toks[i + 1].k = "]"
           THEN POk(i + 2, JArr(<<>>))
           ELSE ParseElements(toks, i + 1, <<>>)
      [] tk.k = "{" ->
           IF i + 1 <= Len(toks) /\ toks[i + 1].k = "}"
           THEN POk(i + 2, JObj(<<>>))
           ELSE ParseMembers(toks, i + 1, <<>>)
      [] OTHER -> PFail

\* the elements of an array from token i on, acc holds those already read
ParseElements(toks, i, acc) ==
  LET r == ParseValue(toks, i) IN
  IF ~r.ok \/ r.next > Len(toks) THEN PFail
  ELSE IF toks[r.next].k = ","
       THEN ParseElements(toks, r.next + 1, Append(acc, r.val))
  ELSE IF toks[r.next].k = "]"
       THEN POk(r.next + 1, JArr(Append(acc, r.val)))
  ELSE PFail

\* the members of an object from token i on, acc holds those already read
ParseMembers(toks, i, acc) ==
  IF i + 1 > Len(toks) \/ toks[i].k # "str" \/ toks[i + 1].k # ":" THEN PFail
  ELSE LET r == ParseValue(toks, i + 2)
           m == [key |-> toks[i].s, val |-> r.val]
       IN
       IF ~r.ok \/ r.next > Len(toks) THEN PFail
       ELSE IF toks[r.next].k = ","
            THEN ParseMembers(toks, r.next + 1, Append(acc, m))
       ELSE IF toks[r.next].k = "}"
            THEN POk(r.next + 1, JObj(Append(acc, m)))
       ELSE PFail

\* JSON.parse(text): ok is FALSE where JSON.parse throws a SyntaxError
JSONParse(toks) ==
  LET r == ParseValue(toks, 1) IN
  IF r.ok /\ r.next = Len(toks) + 1 THEN r ELSE PFail

\* the property names of a decoded object
MemberKeys(v) == {v.members[j].key : j \in 1..Len(v.members)}

\* property lookup on a decoded object: the last member of that name wins
Member(v, key) ==
  LET js == {j \in 1..Len(v.members) : v.members[j].key = key}
      last == CHOOSE j \in js : \A h \in js : h <= j
  IN v.members[last].val

\* a decoded value that is an item: { id: number, text: string, completed: boolean }
IsItemValue(v) ==
  /\ v.t = "object"
  /\ MemberKeys(v) = {KeyId, KeyText, KeyCompleted}
  /\ Member(v, KeyId).t = "number"
  /\ Member(v, KeyText).t = "string"
  /\ Member(v, KeyCompleted).t = "boolean"

\* a decoded value that is an array of items
IsItemArray(v) ==
  v.t = "array" /\ \A j \in 1..Len(v.elems) : IsItemValue(v.elems[j])

\* the item a decoded item value stands for
ItemOf(v) ==
  [id |-> Member(v, KeyId).n,
   text |-> Member(v, KeyText).s,
   completed |-> Member(v, KeyCompleted).b]

\* the collection a decoded array of items stands for
ItemsOf(v) == [j \in 1..Len(v.elems) |-> ItemOf(v.elems[j])]

(* ---------------------------------------------------------------------- *)
(* State                                                                   *)
(* ---------------------------------------------------------------------- *)
VARIABLES
  pc,          \* "start": not rendered yet; "idle": rendered, effects run;
               \* "dirty": state updates queued, re-render pending;
               \* "crashed": an uncaught error made React unmount the tree
  todos,       \* the `todos` state of the current render
  inputValue,  \* the `inputValue` state of the current render
  nextTodos,   \* value queued by setTodos for the next render
  nextInput,   \* value queued by setInputValue for the next render
  todosSet,    \* setTodos was called since the last render (a new array)
  storage,     \* localStorage['todos']: present or not, and its text
  clock,       \* the reading of Date.now()
  error,       \* the uncaught error, "none" if there is none
  last,        \* the last handler call: its name, its argument (id or
               \* submitted text), and the collection it was called on
  pair,        \* valid when the last two handler calls were toggles of the
               \* same id: the collection before the first of them
  accepted,    \* valid while the session started empty and only
               \* handleAddTodo was called: the trimmed texts of the
               \* submissions whose trimmed text was not empty, in call order
  removed,     \* the ids handleDeleteTodo has removed from the collection
               \* (recorded in SpecHistory only)
  keyAbsent,   \* the key 'todos' was absent when the session started
  queued       \* the handler calls that called setTodos since the last
               \* render, in call order

vars == <<pc, todos, inputValue, nextTodos, nextInput, todosSet, storage,
          clock, error, last, pair, accepted, removed, keyAbsent, queued>>

\* the ids a handler can be called with: every clock reading and saved id
Ids == SavedIds \cup (StartClock..(StartClock + MaxTicks))

\* localStorage.getItem('todos') returns null when the key is absent
Absent == [present |-> FALSE, text |-> <<>>]
Stored(text) == [present |-> TRUE, text |-> text]

\* the texts an accepted add can store
ItemTexts == {Trim(s) : s \in Inputs} \ {<<>>}

\* collections an earlier session of the program can have saved: nothing,
\* or one item created at an earlier reading of the clock
SavedCollections ==
  {<<>>} \cup {<<[id |-> i, text |-> t, completed |-> c]>> :
                 i \in SavedIds, t \in ItemTexts, c \in BOOLEAN}

\* texts under the key that are not the encoding of a collection: the empty
\* text, malformed or truncated JSON, and JSON values that are not arrays
ForeignTexts ==
  { <<>>,
    <<Tok("[")>>,
    <<Tok("["), Tok("{"), StrTok(KeyId), Tok(":"), NumTok(1), Tok(",")>>,
    <<Tok("null")>>,
    <<Tok("{"), Tok("}")>>,
    <<NumTok(7)>> }

\* a well-formed array of items that handleAddTodo cannot have produced,
\* put under the key by another writer: the text is white space only
EditedCollections ==
  {<<[id |-> i, text |-> <<" ">>, completed |-> FALSE]>> : i \in SavedIds}

\* what localStorage['todos'] can hold when the program starts
InitialStorage ==
  {Absent} \cup {Stored(t) : t \in ForeignTexts}
           \cup {Stored(JSONStringify(c)) : c \in SavedCollections}
           \cup {Stored(JSONStringify(c)) : c \in EditedCollections}

\* no handler was called yet
NoCall == [op |-> "none", id |-> 0, text |-> <<>>, before |-> <<>>]
NoPair == [valid |-> FALSE, before |-> <<>>]
NoLog == [valid |-> FALSE, texts |-> <<>>]

Init ==
  /\ pc = "start"
  /\ todos = <<>>
  /\ inputValue = <<>>
  /\ nextTodos = <<>>
  /\ nextInput = <<>>
  /\ todosSet = FALSE
  /\ storage \in InitialStorage
  /\ clock = StartClock
  /\ error = "none"
  /\ last = NoCall
  /\ pair = NoPair
  /\ accepted = NoLog
  /\ removed = {}
  /\ keyAbsent = ~storage.present
  /\ queued = <<>>

(* ---------------------------------------------------------------------- *)
(* Initialization: the lazy useState initializer and the first render      *)
(* ---------------------------------------------------------------------- *)
\* const savedTodos = localStorage.getItem('todos');
\* return savedTodos ? JSON.parse(savedTodos) : [];
\* threw is TRUE where JSON.parse throws
InitialTodos(st) ==
  IF st.present /\ Truthy(st.text)
  THEN LET r == JSONParse(st.text) IN
       [threw |-> ~r.ok, val |-> r.val]
  ELSE [threw |-> FALSE, val |-> JArr(<<>>)]

\* evaluating the JSX `todos.length === 0 ? ... : todos.map(...)` throws a
\* TypeError for a state that is not an array: null has no properties, and
\* objects, numbers, booleans and non-empty strings have no `map`
RenderThrows(v) ==
  CASE v.t = "null" -> TRUE
    [] v.t \in {"object", "number", "boolean"} -> TRUE
    [] v.t = "string" -> v.s # <<>>
    [] IsItemArray(v) -> FALSE

\* variant of SaveEffect: the effect writes the collection of the previous
\* render instead of the one just committed
SaveEffect_Stale(list) ==
  \/ /\ storage' = Stored(JSONStringify(todos))
     /\ pc' = "idle"
     /\ error' = "none"
  \/ /\ storage' = storage
     /\ pc' = "crashed"
     /\ error' = "StorageError"

\* variant of SaveEffect: an empty collection is not written
SaveEffect_SkipEmpty(list) ==
  \/ /\ storage' = IF list = <<>> THEN storage ELSE Stored(JSONStringify(list))
     /\ pc' = "idle"
     /\ error' = "none"
  \/ /\ storage' = storage
     /\ pc' = "crashed"
     /\ error' = "StorageError"

\* useEffect body: localStorage.setItem('todos', JSON.stringify(todos)).
\* setItem either stores the text or throws (quota exceeded, storage
\* disabled); the effect does not catch the exception, so React unmounts
\* the component tree.
SaveEffect(list) ==
  \/ /\ storage' = Stored(JSONStringify(list))
     /\ pc' = "idle"
     /\ error' = "none"
  \/ /\ storage' = storage
     /\ pc' = "crashed"
     /\ error' = "StorageError"

\* first render of App
Mount ==
  /\ pc = "start"
  /\ LET init == InitialTodos(storage) IN
     IF init.threw
     THEN /\ pc' = "crashed"
          /\ error' = "SyntaxError"
          /\ UNCHANGED <<todos, storage, accepted>>
     ELSE IF RenderThrows(init.val)
     THEN /\ pc' = "crashed"
          /\ error' = "TypeError"
          /\ UNCHANGED <<todos, storage, accepted>>
     ELSE /\ todos' = ItemsOf(init.val)
          /\ accepted' = [valid |-> ItemsOf(init.val) = <<>>, texts |-> <<>>]
          /\ SaveEffect(ItemsOf(init.val))
  /\ UNCHANGED <<inputValue, nextTodos, nextInput, todosSet, clock, last,
                 pair, removed, keyAbsent, queued>>

(* ---------------------------------------------------------------------- *)
(* Re-render after a state update                                          *)
(* ---------------------------------------------------------------------- *)
\* React commits the queued state; the effect runs when `todos` is a new
\* array (dependency list [todos])
Render ==
  /\ pc = "dirty"
  /\ todos' = nextTodos
  /\ inputValue' = nextInput
  /\ todosSet' = FALSE
  /\ IF todosSet
     THEN SaveEffect(nextTodos)
     ELSE /\ pc' = "idle"
          /\ UNCHANGED <<storage, error>>
  /\ queued' = <<>>
  /\ UNCHANGED <<nextTodos, nextInput, clock, last, pair, accepted, removed,
                 keyAbsent>>

(* ---------------------------------------------------------------------- *)
(* Handlers                                                                *)
(* ---------------------------------------------------------------------- *)
\* Every handler runs in a discrete DOM event (submit, click, input).  React
\* re-renders and runs the effect of a discrete event's updates before the
\* next event is dispatched, so a handler is called on the collection of the
\* latest render: pc = "idle".

\* the record a handler call leaves in `last`
Call(op, id, text) == [op |-> op, id |-> id, text |-> text, before |-> todos]

\* the record a handler call that calls setTodos leaves in `queued`
Update(op, id, text) == [op |-> op, id |-> id, text |-> text]

\* the `todos` a handler closes over: the collection of the render that
\* created the handler
Snapshot == todos

\* the `inputValue` queued for the next render: a handler that does not call
\* setInputValue leaves it as it is
PendingInput == IF pc = "dirty" THEN nextInput ELSE inputValue

\* onChange={(e) => setInputValue(e.target.value)}
OnChange(v) ==
  /\ pc = "idle"
  /\ v # inputValue
  /\ nextInput' = v
  /\ nextTodos' = todos
  /\ pc' = "dirty"
  /\ UNCHANGED <<todos, inputValue, todosSet, storage, clock, error, last,
                 pair, accepted, removed, keyAbsent, queued>>

\* variant of ClearedInput: the input field keeps the submitted text
ClearedInput_Kept == inputValue

\* setInputValue(''): the value the input field gets after an accepted add
ClearedInput == <<>>

\* the item handleAddTodo creates
NewTodo == [id |-> clock, text |-> Trim(inputValue), completed |-> FALSE]

\* variant of AddResult: the new item is put in front
AddResult_Prepend(list, todo) == <<todo>> \o list

\* [...todos, newTodo]
AddResult(list, todo) == Append(list, todo)

\* the body of handleAddTodo
AddTodo ==
  /\ Truthy(Trim(inputValue)) => Len(todos) < MaxItems
  /\ IF Truthy(Trim(inputValue))
     THEN /\ nextTodos' = AddResult(Snapshot, NewTodo)
          /\ nextInput' = ClearedInput
          /\ todosSet' = TRUE
          /\ pc' = "dirty"
          /\ queued' = Append(queued, Update("add", clock, inputValue))
     ELSE UNCHANGED <<nextTodos, nextInput, todosSet, pc, queued>>
  /\ last' = Call("add", 0, inputValue)
  /\ pair' = NoPair
  /\ accepted' = IF accepted.valid /\ Trim(inputValue) # <<>>
                 THEN [accepted EXCEPT !.texts = Append(@, Trim(inputValue))]
                 ELSE accepted
  /\ UNCHANGED <<todos, inputValue, storage, clock, error, removed,
                 keyAbsent>>

\* handleAddTodo: form submit
HandleAddTodo == pc = "idle" /\ AddTodo

\* variant of ToggleResult: the matching item is marked completed, not flipped
ToggleResult_SetTrue(list, id) ==
  [j \in 1..Len(list) |->
     IF list[j].id = id
     THEN [list[j] EXCEPT !.completed = TRUE]
     ELSE list[j]]

\* variant of ToggleResult: the id is not compared, every item is flipped
ToggleResult_All(list, id) ==
  [j \in 1..Len(list) |-> [list[j] EXCEPT !.completed = ~list[j].completed]]

\* todos.map(todo => todo.id === id ? { ...todo, completed: !todo.completed } : todo)
ToggleResult(list, id) ==
  [j \in 1..Len(list) |->
     IF list[j].id = id
     THEN [list[j] EXCEPT !.completed = ~list[j].completed]
     ELSE list[j]]

\* the body of handleToggleCompleted(id)
ToggleCompleted(id) ==
  /\ nextTodos' = ToggleResult(Snapshot, id)
  /\ nextInput' = PendingInput
  /\ todosSet' = TRUE
  /\ pc' = "dirty"
  /\ last' = Call("toggle", id, <<>>)
  /\ pair' = IF last.op = "toggle" /\ last.id = id
             THEN [valid |-> TRUE, before |-> last.before]
             ELSE NoPair
  /\ accepted' = NoLog
  /\ queued' = Append(queued, Update("toggle", id, <<>>))
  /\ UNCHANGED <<todos, inputValue, storage, clock, error, removed,
                 keyAbsent>>

\* handleToggleCompleted(id): click on an item
HandleToggleCompleted(id) == pc = "idle" /\ ToggleCompleted(id)

\* variant of FilterResult: the kept items come out in reverse order
RECURSIVE FilterResult_Reversed(_, _)
FilterResult_Reversed(list, id) ==
  IF list = <<>> THEN <<>>
  ELSE IF Head(list).id # id
       THEN FilterResult_Reversed(Tail(list), id) \o <<Head(list)>>
       ELSE FilterResult_Reversed(Tail(list), id)

RECURSIVE FilterResult(_, _)
\* todos.filter(todo => todo.id !== id)
FilterResult(list, id) ==
  IF list = <<>> THEN <<>>
  ELSE IF Head(list).id # id
       THEN <<Head(list)>> \o FilterResult(Tail(list), id)
       ELSE FilterResult(Tail(list), id)

\* the body of handleDeleteTodo(id)
DeleteTodo(id) ==
  /\ nextTodos' = FilterResult(Snapshot, id)
  /\ nextInput' = PendingInput
  /\ todosSet' = TRUE
  /\ pc' = "dirty"
  /\ last' = Call("delete", id, <<>>)
  /\ pair' = NoPair
  /\ accepted' = NoLog
  /\ queued' = Append(queued, Update("delete", id, <<>>))
  /\ UNCHANGED <<todos, inputValue, storage, clock, error, keyAbsent>>

\* handleDeleteTodo(id): click on an item's delete button
HandleDeleteTodo(id) ==
  /\ pc = "idle"
  /\ DeleteTodo(id)
  /\ removed' = removed

\* handleDeleteTodo(id), with the removal of a present id put on record
HandleDeleteTodoRecorded(id) ==
  /\ pc = "idle"
  /\ DeleteTodo(id)
  /\ removed' = IF \E j \in 1..Len(todos) : todos[j].id = id
                THEN removed \cup {id}
                ELSE removed

(* ---------------------------------------------------------------------- *)
(* Environment                                                             *)
(* ---------------------------------------------------------------------- *)
\* a millisecond passes: Date.now() returns the next value
Tick ==
  /\ clock < StartClock + MaxTicks
  /\ clock' = clock + 1
  /\ UNCHANGED <<pc, todos, inputValue, nextTodos, nextInput, todosSet,
                 storage, error, last, pair, accepted, removed, keyAbsent,
                 queued>>

Next ==
  \/ Mount
  \/ Render
  \/ \E v \in Inputs : OnChange(v)
  \/ HandleAddTodo
  \/ \E id \in Ids : HandleToggleCompleted(id)
  \/ \E id \in Ids : HandleDeleteTodo(id)
  \/ Tick

Spec == Init /\ [][Next]_vars

\* the program with the history of removals kept
NextHistory ==
  \/ Mount
  \/ Render
  \/ \E v \in Inputs : OnChange(v)
  \/ HandleAddTodo
  \/ \E id \in Ids : HandleToggleCompleted(id)
  \/ \E id \in Ids : HandleDeleteTodoRecorded(id)
  \/ Tick

SpecHistory == Init /\ [][NextHistory]_vars

\* a second handler call in the same task as the first: the state updates of
\* the first are queued and no render has run, so the handler that runs is
\* still the one of the last render, closed over its `todos` and `inputValue`
InSameTask == pc = "dirty" /\ Len(queued) < MaxBatch

BatchedAddTodo == InSameTask /\ AddTodo

BatchedToggleCompleted(id) == InSameTask /\ ToggleCompleted(id)

BatchedDeleteTodo(id) ==
  /\ InSameTask
  /\ DeleteTodo(id)
  /\ removed' = removed

\* the program with events dispatched back to back, before React re-renders
NextBatched ==
  \/ Mount
  \/ Render
  \/ \E v \in Inputs : OnChange(v)
  \/ HandleAddTodo
  \/ \E id \in Ids : HandleToggleCompleted(id)
  \/ \E id \in Ids : HandleDeleteTodo(id)
  \/ Tick
  \/ BatchedAddTodo
  \/ \E id \in Ids : BatchedToggleCompleted(id)
  \/ \E id \in Ids : BatchedDeleteTodo(id)

SpecBatched == Init /\ [][NextBatched]_vars

(* ---------------------------------------------------------------------- *)
(* Properties                                                              *)
(* ---------------------------------------------------------------------- *)
\* the latest collection: the queued one while a re-render is pending
Current == IF pc = "dirty" THEN nextTodos ELSE todos

\* the ids of the items of a collection
IdsOf(list) == {list[j].id : j \in 1..Len(list)}

\* C1: no two items of the collection have the same id, at any time, also
\* when two adds happen at the same reading of Date.now().
C1_UniqueIds ==
  \A i, j \in 1..Len(Current) : i # j => Current[i].id # Current[j].id

\* C2: initialization never fails: whatever the key holds, no error is raised
\* by the initializer or the first render.
C2_InitializeNeverFails == error \notin {"SyntaxError", "TypeError"}

\* C3: when the durable write that follows a mutation fails, the store stays
\* operational with the mutation applied: the component is still mounted and
\* holds the committed collection.
C3_WriteFailureKeepsStore ==
  (error = "StorageError" /\ last.op # "none") =>
    pc \in {"idle", "dirty"} /\ todos = nextTodos

\* C4: whenever no operation is in progress (rendered, effects run, writes
\* succeeded), the value under the key is exactly the encoding of the
\* in-memory collection.
C4_StorageAgrees ==
  pc = "idle" => storage = Stored(JSONStringify(todos))

C4_Witness ==
  /\ pc = "idle"
  /\ last.op \in {"add", "toggle", "delete"}
  /\ Len(todos) = 2
  /\ todos # last.before
  /\ storage = Stored(JSONStringify(todos))

\* C5: round trip: the initializer of a fresh store, run on the value the
\* effect persisted, decodes a collection equal to the in-memory one: same
\* length, same order, same id, text and completed at every position.
C5_RoundTrip ==
  pc = "idle" =>
    LET init == InitialTodos(storage) IN
    /\ ~init.threw
    /\ IsItemArray(init.val)
    /\ ItemsOf(init.val) = todos

C5_Witness ==
  /\ pc = "idle"
  /\ last.op = "toggle"
  /\ Len(todos) = 2
  /\ todos[1].completed /\ ~todos[2].completed
  /\ todos[1].text # todos[2].text
  /\ ItemsOf(InitialTodos(storage).val) = todos

\* C6: starting from an empty store, after any sequence of add calls the
\* collection has one item per call whose trimmed text was not empty, and
\* the items' texts are those trimmed texts in call order.
C6_AddsAppendInOrder ==
  (accepted.valid /\ pc \in {"idle", "dirty"}) =>
    /\ Len(Current) = Len(accepted.texts)
    /\ \A j \in 1..Len(Current) : Current[j].text = accepted.texts[j]

C6_Witness ==
  /\ accepted.valid
  /\ pc = "idle"
  /\ Len(todos) = 2
  /\ todos[1].text # todos[2].text
  /\ last.op = "add" /\ Trim(last.text) = <<>>

\* C7: an add whose text is empty or white space only is a silent no-op: the
\* collection is unchanged, no update is queued, no error is raised.
C7_BlankAddIsNoOp ==
  (last.op = "add" /\ Trim(last.text) = <<>>) =>
    /\ todos = last.before
    /\ Current = last.before
    /\ ~todosSet
    /\ error = "none"

C7_Witness ==
  /\ last.op = "add"
  /\ last.text = <<" ">>
  /\ Len(todos) >= 1
  /\ pc = "idle"

\* the positions at which two collections of the same length differ
Changed(before, after) == {j \in 1..Len(before) : after[j] # before[j]}

\* C8: toggleCompleted(id) for an id present in the collection flips the
\* completed flag of exactly one item and leaves every other item, the
\* length and the order unchanged.
C8_ToggleFlipsExactlyOne ==
  (last.op = "toggle" /\ last.id \in IdsOf(last.before)) =>
    /\ Len(Current) = Len(last.before)
    /\ Cardinality(Changed(last.before, Current)) = 1
    /\ \A j \in 1..Len(last.before) :
         /\ Current[j].id = last.before[j].id
         /\ Current[j].text = last.before[j].text

\* C9: toggleCompleted is an involution: two calls in a row with the same id
\* give back the collection from before the two calls.
C9_ToggleTwiceRestores == pair.valid => Current = pair.before

C9_Witness ==
  /\ pair.valid
  /\ pc = "idle"
  /\ last.id \in IdsOf(todos)
  /\ todos # last.before
  /\ Len(todos) = 2

\* C10: toggleCompleted with an id that no item has leaves the collection
\* unchanged: same items, same fields, same order.
C10_ToggleUnknownIdIsNoOp ==
  (last.op = "toggle" /\ last.id \notin IdsOf(last.before)) =>
    Current = last.before

C10_Witness ==
  /\ last.op = "toggle"
  /\ last.id \notin IdsOf(last.before)
  /\ Len(last.before) >= 1
  /\ pc = "idle"
  /\ todos = last.before

\* the positions of `before` that handleDeleteTodo(id) keeps
Kept(before, id) == {j \in 1..Len(before) : before[j].id # id}

\* the k-th smallest position of a set of positions
Nth(positions, k) ==
  CHOOSE j \in positions : Cardinality({h \in positions : h <= j}) = k

\* C11: remove(id) makes the collection exactly one item shorter when an item
\* with that id is present, and leaves the collection unchanged when none is.
C11_RemoveShortensByOne ==
  last.op = "delete" =>
    IF last.id \in IdsOf(last.before)
    THEN Len(Current) = Len(last.before) - 1
    ELSE Current = last.before

\* C14: add and remove never modify a surviving item.  An accepted add
\* creates its item with completed = false at the end and leaves every
\* earlier item and the order as they were; remove leaves every item it
\* does not remove, and their relative order, as they were.  So a completed
\* flag changes only by a toggle on the item's own id.
C14_AddRemoveKeepOthers ==
  /\ (last.op = "add" /\ Trim(last.text) # <<>>) =>
       /\ Len(Current) = Len(last.before) + 1
       /\ \A j \in 1..Len(last.before) : Current[j] = last.before[j]
       /\ ~Current[Len(Current)].completed
  /\ last.op = "delete" =>
       /\ Len(Current) = Cardinality(Kept(last.before, last.id))
       /\ \A k \in 1..Len(Current) :
            Current[k] = last.before[Nth(Kept(last.before, last.id), k)]
  /\ last.op = "toggle" =>
       /\ Len(Current) = Len(last.before)
       /\ \A j \in 1..Len(last.before) :
            last.before[j].id # last.id => Current[j] = last.before[j]

C14_Witness ==
  /\ last.op = "delete"
  /\ pc = "idle"
  /\ Len(last.before) = 2
  /\ Len(todos) = 1
  /\ todos[1] = last.before[2]
  /\ todos[1].completed

\* C15: the input field is cleared exactly when an add is accepted: a submit
\* whose trimmed input is not empty queues the empty string, which the
\* re-render commits; a submit whose trimmed input is empty queues nothing and
\* leaves the input value as it was; toggle and delete leave it as it was,
\* also over the re-render they cause.
C15_InputClearedOnAccept ==
  [][ /\ HandleAddTodo =>
           IF Trim(inputValue) # <<>>
           THEN nextInput' = <<>> /\ pc' = "dirty"
           ELSE inputValue' = inputValue /\ pc' = "idle" /\ ~todosSet'
      /\ (\E id \in Ids : HandleToggleCompleted(id) \/ HandleDeleteTodo(id)) =>
           nextInput' = inputValue /\ inputValue' = inputValue
      /\ (pc = "dirty" /\ todosSet /\ pc' # "dirty") =>
           inputValue' = IF last.op = "add" THEN <<>> ELSE inputValue
    ]_vars

C15_Witness ==
  /\ pc = "idle"
  /\ last.op = "add"
  /\ last.text = <<" ", "a", " ">>
  /\ inputValue = <<>>
  /\ Len(todos) = Len(last.before) + 1

\* C13: every item of the collection has a text that is not empty, not
\* white space only, and equal to its own trimmed form, whether the item was
\* created by add or decoded from the persisted value.
C13_TextsTrimmedNonEmpty ==
  \A j \in 1..Len(Current) :
    Current[j].text # <<>> /\ Trim(Current[j].text) = Current[j].text

\* C12: once an item has been removed, its id never appears in the
\* collection again, whatever add, toggle or remove follows.
C12_RemovedIdNeverReturns ==
  \A j \in 1..Len(Current) : Current[j].id \notin removed

\* the encoding of the empty collection: "[]"
EmptyEncoding == <<Tok("["), Tok("]")>>

\* C17: startup itself writes the durable store: once the first render and
\* its effect are done, and before any handler call, the key is present and
\* holds the encoding of the initial collection, "[]" when the key was absent;
\* and a rejected add (empty trimmed text) triggers no write: the stored value
\* stays and no effect is scheduled.
C17_StartupWritesStore ==
  [][ /\ (pc' = "idle" /\ last'.op = "none") =>
           /\ storage'.present
           /\ storage'.text = JSONStringify(todos')
           /\ keyAbsent => storage'.text = EmptyEncoding
      /\ (HandleAddTodo /\ Trim(inputValue) = <<>>) =>
           /\ storage' = storage
           /\ pc' = "idle"
           /\ ~todosSet'
           /\ queued' = queued
    ]_vars

C17_Witness ==
  /\ pc = "idle"
  /\ keyAbsent
  /\ last.op = "none"
  /\ storage = Stored(EmptyEncoding)

\* the effect of one recorded handler call on a collection
ApplyCall(c, list) ==
  IF c.op = "add"
  THEN AddResult(list, [id |-> c.id, text |-> Trim(c.text),
                        completed |-> FALSE])
  ELSE IF c.op = "toggle"
       THEN ToggleResult(list, c.id)
       ELSE FilterResult(list, c.id)

RECURSIVE ApplyAll(_, _)
\* the effect of a sequence of recorded handler calls, one after the other
ApplyAll(calls, list) ==
  IF calls = <<>> THEN list
  ELSE ApplyAll(Tail(calls), ApplyCall(Head(calls), list))

\* C16: no accepted mutation is lost: the collection queued for the next
\* render is the rendered collection with every handler call made since that
\* render applied in turn, also when two calls were made from the same
\* rendered snapshot.
C16_NoMutationLost ==
  (pc = "dirty" /\ queued # <<>>) => nextTodos = ApplyAll(queued, todos)

====
